---------------------------- MODULE Spec2Model ----------------------------
(***************************************************************************)
(* sigscan-runner: strategy-directed argument synthesis (calldata.rs) and  *)
(* the execution ranking engine (evm.rs, main.rs).                         *)
(***************************************************************************)
EXTENDS Integers, Sequences, FiniteSets, TLC

(***************************************************************************)
(* Bounds of the model.                                                    *)
(***************************************************************************)
MaxTupleLen == 2
MaxFixedLen == 2

(***************************************************************************)
(* calldata.rs: CallStrategy                                               *)
(***************************************************************************)
CallStrategy == {"SmartDefaults", "CallerAddress", "ZeroDefaults"}

(***************************************************************************)
(* Byte strings.  An address is 20 bytes, a word 32, a function value 24.  *)
(***************************************************************************)
ZeroBytes(n) == [i \in 1..n |-> 0]

\* Address::with_last_byte(1), B256 with b[n-1] = 1, Function with f[23] = 1:
\* an all-zero byte string whose byte at 1-based position pos is 1.
OneAt(n, pos) == [i \in 1..n |-> IF i = pos THEN 1 ELSE 0]

\* evm.rs caller(): 0x10 00 .. 00 01
caller == [i \in 1..20 |-> IF i = 1 THEN 16 ELSE IF i = 20 THEN 1 ELSE 0]

(***************************************************************************)
(* DynSolType: the canonical recursive type.                               *)
(***************************************************************************)
TBool == [k |-> "Bool"]
TUint(b) == [k |-> "Uint", bits |-> b]
TInt(b) == [k |-> "Int", bits |-> b]
TAddress == [k |-> "Address"]
TBytes == [k |-> "Bytes"]
TString == [k |-> "String"]
TFixedBytes(n) == [k |-> "FixedBytes", size |-> n]
TFunction == [k |-> "Function"]
TArray(t) == [k |-> "Array", inner |-> t]
TFixedArray(t, n) == [k |-> "FixedArray", inner |-> t, len |-> n]
TTuple(ts) == [k |-> "Tuple", types |-> ts]

(***************************************************************************)
(* DynSolValue: the value tree.                                            *)
(***************************************************************************)
VBool(f) == [k |-> "Bool", flag |-> f]
VUint(w, b) == [k |-> "Uint", word |-> w, bits |-> b]
VInt(w, b) == [k |-> "Int", word |-> w, bits |-> b]
VAddress(a) == [k |-> "Address", addr |-> a]
VBytes(bs) == [k |-> "Bytes", bytes |-> bs]
VString(s) == [k |-> "String", str |-> s]
VFixedBytes(w, n) == [k |-> "FixedBytes", word32 |-> w, size |-> n]
VFunction(f) == [k |-> "Function", fn |-> f]
VArray(es) == [k |-> "Array", elems |-> es]
VFixedArray(es) == [k |-> "FixedArray", elems |-> es]
VTuple(fs) == [k |-> "Tuple", fields |-> fs]

(***************************************************************************)
(* calldata.rs: smart_value, caller_value, zero_value, strategy_value      *)
(***************************************************************************)
RECURSIVE smart_value(_, _)
smart_value(ty, clr) ==
    CASE ty.k = "Bool" -> VBool(TRUE)
      [] ty.k = "Uint" -> VUint(1, ty.bits)
      [] ty.k = "Int" -> VInt(1, ty.bits)
      [] ty.k = "Address" -> VAddress(OneAt(20, 20))
      [] ty.k = "Bytes" -> VBytes(<<1>>)
      [] ty.k = "String" -> VString("a")
      [] ty.k = "FixedBytes" ->
            VFixedBytes(IF ty.size > 0 THEN OneAt(32, ty.size) ELSE ZeroBytes(32), ty.size)
      [] ty.k = "Array" -> VArray(<<smart_value(ty.inner, clr)>>)
      [] ty.k = "FixedArray" ->
            VFixedArray([i \in 1..ty.len |-> smart_value(ty.inner, clr)])
      [] ty.k = "Tuple" ->
            VTuple([i \in 1..Len(ty.types) |-> smart_value(ty.types[i], clr)])
      [] ty.k = "Function" -> VFunction(OneAt(24, 24))

\* caller_value without the Tuple arm: tuple fields fall through to smart_value.
RECURSIVE caller_value_flat(_, _)
caller_value_flat(ty, clr) ==
    CASE ty.k = "Address" -> VAddress(clr)
      [] ty.k = "Array" -> VArray(<<caller_value_flat(ty.inner, clr)>>)
      [] ty.k = "FixedArray" ->
            VFixedArray([i \in 1..ty.len |-> caller_value_flat(ty.inner, clr)])
      [] OTHER -> smart_value(ty, clr)

RECURSIVE caller_value(_, _)
caller_value(ty, clr) ==
    CASE ty.k = "Address" -> VAddress(clr)
      [] ty.k = "Array" -> VArray(<<caller_value(ty.inner, clr)>>)
      [] ty.k = "FixedArray" ->
            VFixedArray([i \in 1..ty.len |-> caller_value(ty.inner, clr)])
      [] ty.k = "Tuple" ->
            VTuple([i \in 1..Len(ty.types) |-> caller_value(ty.types[i], clr)])
      [] OTHER -> smart_value(ty, clr)

\* zero_value whose FixedArray arm is empty like its Array arm.
RECURSIVE zero_value_empty_fixed(_)
zero_value_empty_fixed(ty) ==
    CASE ty.k = "Bool" -> VBool(FALSE)
      [] ty.k = "Uint" -> VUint(0, ty.bits)
      [] ty.k = "Int" -> VInt(0, ty.bits)
      [] ty.k = "Address" -> VAddress(ZeroBytes(20))
      [] ty.k = "Bytes" -> VBytes(<<>>)
      [] ty.k = "String" -> VString("")
      [] ty.k = "FixedBytes" -> VFixedBytes(ZeroBytes(32), ty.size)
      [] ty.k = "Array" -> VArray(<<>>)
      [] ty.k = "FixedArray" -> VFixedArray(<<>>)
      [] ty.k = "Tuple" ->
            VTuple([i \in 1..Len(ty.types) |-> zero_value_empty_fixed(ty.types[i])])
      [] ty.k = "Function" -> VFunction(ZeroBytes(24))

RECURSIVE zero_value(_)
zero_value(ty) ==
    CASE ty.k = "Bool" -> VBool(FALSE)
      [] ty.k = "Uint" -> VUint(0, ty.bits)
      [] ty.k = "Int" -> VInt(0, ty.bits)
      [] ty.k = "Address" -> VAddress(ZeroBytes(20))
      [] ty.k = "Bytes" -> VBytes(<<>>)
      [] ty.k = "String" -> VString("")
      [] ty.k = "FixedBytes" -> VFixedBytes(ZeroBytes(32), ty.size)
      [] ty.k = "Array" -> VArray(<<>>)
      [] ty.k = "FixedArray" ->
            VFixedArray([i \in 1..ty.len |-> zero_value(ty.inner)])
      [] ty.k = "Tuple" ->
            VTuple([i \in 1..Len(ty.types) |-> zero_value(ty.types[i])])
      [] ty.k = "Function" -> VFunction(ZeroBytes(24))

strategy_value(ty, strategy, clr) ==
    CASE strategy = "SmartDefaults" -> smart_value(ty, clr)
      [] strategy = "CallerAddress" -> caller_value(ty, clr)
      [] strategy = "ZeroDefaults" -> zero_value(ty)

(***************************************************************************)
(* The canonical types the synthesizer is exercised on: every leaf, every  *)
(* aggregate of leaves, and aggregates of aggregates over address/uint.    *)
(***************************************************************************)
SeqsUpTo(S, n) == UNION {[1..m -> S] : m \in 0..n}

LeafTypes ==
    {TBool, TUint(256), TInt(256), TAddress, TBytes, TString,
     TFixedBytes(32), TFunction}

Aggregates(S) ==
    {TArray(t) : t \in S}
      \cup {TFixedArray(t, n) : t \in S, n \in 0..MaxFixedLen}
      \cup {TTuple(ts) : ts \in SeqsUpTo(S, MaxTupleLen)}

CoreTypes == {TAddress, TUint(256)}

CanonicalTypes ==
    LeafTypes \cup Aggregates(LeafTypes)
      \cup Aggregates(CoreTypes \cup Aggregates(CoreTypes))

(***************************************************************************)
(* Strings are sequences of one-character strings, so that prefixes,       *)
(* slices and ordering can be computed.                                    *)
(***************************************************************************)
S_tuple_open == <<"t", "u", "p", "l", "e", "[">>
S_tuple == <<"t", "u", "p", "l", "e">>
S_tuple_dyn == <<"t", "u", "p", "l", "e", "[", "]">>
S_bool == <<"b", "o", "o", "l">>
S_uint256 == <<"u", "i", "n", "t", "2", "5", "6">>
S_address == <<"a", "d", "d", "r", "e", "s", "s">>
S_address_dyn == <<"a", "d", "d", "r", "e", "s", "s", "[", "]">>
S_void == <<"v", "o", "i", "d">>

starts_with(s, prefix) ==
    /\ Len(s) >= Len(prefix)
    /\ SubSeq(s, 1, Len(prefix)) = prefix

Digits == <<"0", "1", "2", "3", "4", "5", "6", "7", "8", "9">>

IsDigit(c) == \E d \in 1..Len(Digits) : Digits[d] = c

DigitVal(c) == (CHOOSE d \in 1..Len(Digits) : Digits[d] = c) - 1

RECURSIVE DecimalValue(_)
DecimalValue(cs) ==
    IF cs = <<>> THEN 0
    ELSE DecimalValue(SubSeq(cs, 1, Len(cs) - 1)) * 10 + DigitVal(cs[Len(cs)])

\* str::parse::<usize>(): an optional "+" followed by at least one digit and
\* nothing else.
parse_usize(cs) ==
    LET ds == IF cs # <<>> /\ cs[1] = "+" THEN Tail(cs) ELSE cs
    IN  IF ds # <<>> /\ \A i \in 1..Len(ds) : IsDigit(ds[i])
        THEN [kind |-> "Ok", n |-> DecimalValue(ds)]
        ELSE [kind |-> "Err"]

\* str::parse::<DynSolType>() on the elementary tags the model uses; every
\* other tag is unparseable.
ElementaryTypes ==
    (S_bool :> TBool) @@ (S_uint256 :> TUint(256)) @@ (S_address :> TAddress)
      @@ (S_address_dyn :> TArray(TAddress))

parse_dyn_sol_type(ty_str) ==
    IF ty_str \in DOMAIN ElementaryTypes
    THEN [kind |-> "Ok", ty |-> ElementaryTypes[ty_str]]
    ELSE [kind |-> "Err", tag |-> ty_str]

(***************************************************************************)
(* alloy_json_abi::Param: a type tag and the component descriptors.        *)
(***************************************************************************)
Param(tag, comps) == [ty |-> tag, components |-> comps]

(***************************************************************************)
(* calldata.rs: param_to_dyn_sol_type.  The result is Ok with the type,    *)
(* Err with the offending tag, or Panic when the slice                     *)
(* ty_str[6..ty_str.len() - 1] has its start after its end.                *)
(***************************************************************************)
RECURSIVE param_to_dyn_sol_type(_)
RECURSIVE collect_types(_, _)

\* .iter().map(param_to_dyn_sol_type).collect::<Result<Vec<_>>>(): left to
\* right, stopping at the first component that does not normalize.
collect_types(params, acc) ==
    IF params = <<>> THEN [kind |-> "Ok", types |-> acc]
    ELSE LET r == param_to_dyn_sol_type(Head(params))
         IN  IF r.kind = "Ok"
             THEN collect_types(Tail(params), Append(acc, r.ty))
             ELSE r

param_to_dyn_sol_type(param) ==
    LET ty_str == param.ty
    IN  IF ty_str = S_tuple
        THEN LET inner == collect_types(param.components, <<>>)
             IN  IF inner.kind = "Ok"
                 THEN [kind |-> "Ok", ty |-> TTuple(inner.types)]
                 ELSE inner
        ELSE IF starts_with(ty_str, S_tuple_open)
        THEN LET inner == collect_types(param.components, <<>>)
             IN  IF inner.kind # "Ok" THEN inner
                 ELSE IF ty_str = S_tuple_dyn
                 THEN [kind |-> "Ok", ty |-> TArray(TTuple(inner.types))]
                 ELSE IF 6 > Len(ty_str) - 1
                 THEN [kind |-> "Panic"]
                 ELSE LET n == parse_usize(SubSeq(ty_str, 7, Len(ty_str) - 1))
                      IN  IF n.kind = "Ok"
                          THEN [kind |-> "Ok",
                                ty |-> TFixedArray(TTuple(inner.types), n.n)]
                          ELSE [kind |-> "Ok", ty |-> TArray(TTuple(inner.types))]
        ELSE parse_dyn_sol_type(ty_str)

\* collect_values that, under ZeroDefaults, puts empty bytes in the place of
\* a parameter that does not normalize instead of failing.
RECURSIVE collect_values_zero_lenient(_, _, _, _)
collect_values_zero_lenient(params, strategy, clr, acc) ==
    IF params = <<>> THEN [kind |-> "Ok", values |-> acc]
    ELSE LET r == param_to_dyn_sol_type(Head(params))
         IN  IF r.kind = "Ok"
             THEN collect_values_zero_lenient(Tail(params), strategy, clr,
                      Append(acc, strategy_value(r.ty, strategy, clr)))
             ELSE IF strategy = "ZeroDefaults" /\ r.kind = "Err"
             THEN collect_values_zero_lenient(Tail(params), strategy, clr,
                      Append(acc, VBytes(<<>>)))
             ELSE r

\* .map(|p| Ok(strategy_value(&param_to_dyn_sol_type(p)?, ..))).collect():
\* the values of the parameters in order, or the first failure.
RECURSIVE collect_values(_, _, _, _)
collect_values(params, strategy, clr, acc) ==
    IF params = <<>> THEN [kind |-> "Ok", values |-> acc]
    ELSE LET r == param_to_dyn_sol_type(Head(params))
         IN  IF r.kind = "Ok"
             THEN collect_values(Tail(params), strategy, clr,
                                 Append(acc, strategy_value(r.ty, strategy, clr)))
             ELSE r

(***************************************************************************)
(* alloy_json_abi::Function: name and ordered inputs.  The canonical       *)
(* signature is determined by the name and the parameter descriptors, the  *)
(* selector by the signature.                                              *)
(***************************************************************************)
Function(n, ins) == [name |-> n, inputs |-> ins]

signature(f) == [name |-> f.name, types |-> [i \in 1..Len(f.inputs) |-> f.inputs[i].ty]]

selector(f) == <<"keccak4", signature(f)>>

(***************************************************************************)
(* calldata.rs: encode_calldata_with_strategy,                             *)
(* encode_constructor_args_with_strategy.  The encoded bytes are kept as   *)
(* the selector and the ordered value trees they encode.                   *)
(***************************************************************************)
encode_calldata_with_strategy(f, strategy, clr) ==
    IF f.inputs = <<>>
    THEN [kind |-> "Ok", data |-> [sel |-> selector(f), args |-> <<>>]]
    ELSE LET vs == collect_values(f.inputs, strategy, clr, <<>>)
         IN  IF vs.kind = "Ok"
             THEN [kind |-> "Ok", data |-> [sel |-> selector(f), args |-> vs.values]]
             ELSE vs

NoConstructor == [present |-> FALSE]
Constructor(ins) == [present |-> TRUE, inputs |-> ins]

encode_constructor_args_with_strategy(abi, strategy, clr) ==
    IF abi.constructor.present /\ abi.constructor.inputs # <<>>
    THEN LET vs == collect_values(abi.constructor.inputs, strategy, clr, <<>>)
         IN  IF vs.kind = "Ok" THEN [kind |-> "Ok", data |-> vs.values] ELSE vs
    ELSE [kind |-> "Ok", data |-> <<>>]

(***************************************************************************)
(* types.rs / evm.rs: ExecutionStatus, FunctionReport, ContractReport,     *)
(* CompiledContract.  Option<T> is a sequence of at most one element.      *)
(***************************************************************************)
None == <<>>
Some(x) == <<x>>

ExecutionStatus == {"Success", "Revert", "Halt"}

FunctionReport(n, sel, sig, g, st, strat) ==
    [name |-> n, selector |-> sel, signature |-> sig, gas |-> g, status |-> st,
     strategy |-> strat]

ContractReport(c, fs) == [contract |-> c, functions |-> fs]

\* abi.items is the interface description in declaration order; the JsonAbi
\* keeps the functions keyed by name (see function_values).
CompiledContract(n, ctor, items, code) ==
    [name |-> n, abi |-> [constructor |-> ctor, items |-> items], bytecode |-> code]

(***************************************************************************)
(* evm.rs constants.                                                       *)
(***************************************************************************)
GAS_LIMIT == 30000000

STRATEGIES == <<"SmartDefaults", "CallerAddress", "ZeroDefaults">>

\* deploy_best walking the three strategies of try_function.
deploy_strategies_all == STRATEGIES

\* evm.rs deploy_best: let strategies = [SmartDefaults, ZeroDefaults]
deploy_strategies == <<"SmartDefaults", "ZeroDefaults">>

\* evm.rs status_rank
status_rank(s) ==
    CASE s = "Success" -> 2
      [] s = "Revert" -> 1
      [] s = "Halt" -> 0

\* evm.rs strategy_label
strategy_label(s) ==
    CASE s = "SmartDefaults" -> "smart_defaults"
      [] s = "CallerAddress" -> "caller_address"
      [] s = "ZeroDefaults" -> "zero_defaults"

(***************************************************************************)
(* The ledger (CacheDB<EmptyDB>): the caller account and the deployed      *)
(* contract account.  Balance is counted in ether.                         *)
(***************************************************************************)
NoCode == [deployed |-> FALSE]

\* evm.rs setup_db
setup_db ==
    [caller_nonce |-> 0, caller_balance |-> 10000, code |-> NoCode, storage |-> 0]

\* The address a creation by sender at nonce n yields.
create_address(sender, n) == <<"create", sender, n>>

\* TxEnv; Default::default() gives nonce 0.
TxEnv(clr, limit, kind, data, nonce) ==
    [caller |-> clr, gas_limit |-> limit, kind |-> kind, data |-> data, nonce |-> nonce]

(***************************************************************************)
(* The execution engine.  `outcome` is what executing the transaction      *)
(* yields when the engine accepts it: a classification with gas used, or   *)
(* "Err" when the engine rejects the transaction.  A transaction whose     *)
(* nonce differs from the caller account's is always rejected.             *)
(***************************************************************************)
GasValues == {21000, 50000}

CallOutcomes ==
    [status : ExecutionStatus, gas_used : GasValues] \cup {[status |-> "Err"]}

CreateOutcomes ==
    {[status |-> "Success", created |-> TRUE],
     [status |-> "Success", created |-> FALSE],
     [status |-> "Revert"], [status |-> "Halt"], [status |-> "Err"]}

\* The ledger after the transaction has executed: the caller's nonce is
\* bumped; a successful creation installs the code, a successful call writes.
post_state(db, tx, outcome) ==
    LET bumped == [db EXCEPT !.caller_nonce = db.caller_nonce + 1]
    IN  IF outcome.status # "Success" THEN bumped
        ELSE IF tx.kind.create
        THEN IF outcome.created
             THEN [bumped EXCEPT !.code = [deployed |-> TRUE, init |-> tx.data]]
             ELSE bumped
        ELSE [bumped EXCEPT !.storage = db.storage + 1]

\* ExecuteEvm::transact: executes and returns the result with the resulting
\* state, leaving the database as it was.
transact(db, tx, outcome) ==
    IF tx.nonce # db.caller_nonce \/ outcome.status = "Err"
    THEN [kind |-> "Err"]
    ELSE [kind |-> "Ok", result |-> outcome, state |-> post_state(db, tx, outcome)]

\* evm.rs deploy: transact_commit of a creation from the given ledger.
deploy(db, data, outcome) ==
    LET tx == TxEnv(caller, GAS_LIMIT, [create |-> TRUE], data, 0)
        r == transact(db, tx, outcome)
    IN  IF r.kind = "Err" THEN [kind |-> "Err", msg |-> "deploy error"]
        ELSE IF r.result.status = "Success"
        THEN IF r.result.created
             THEN [kind |-> "Ok", db |-> r.state,
                   addr |-> create_address(caller, db.caller_nonce)]
             ELSE [kind |-> "Err", msg |-> "CREATE succeeded but no address returned"]
        ELSE IF r.result.status = "Revert"
        THEN [kind |-> "Err", msg |-> "deploy reverted"]
        ELSE [kind |-> "Err", msg |-> "deploy halted"]

\* call that commits what the transaction did to the ledger.
call_committing(db, addr, func, calldata, outcome) ==
    LET tx == TxEnv(caller, GAS_LIMIT, [create |-> FALSE, to |-> addr], calldata, 1)
        r == transact(db, tx, outcome)
    IN  IF r.kind = "Err" THEN [kind |-> "Err", db |-> db]
        ELSE [kind |-> "Ok", db |-> r.state,
              report |-> FunctionReport(func.name, selector(func), signature(func),
                                        r.result.gas_used, r.result.status, None)]

\* call without `nonce: 1`: the transaction carries the default nonce 0.
call_default_nonce(db, addr, func, calldata, outcome) ==
    LET tx == TxEnv(caller, GAS_LIMIT, [create |-> FALSE, to |-> addr], calldata, 0)
        r == transact(db, tx, outcome)
    IN  IF r.kind = "Err" THEN [kind |-> "Err", db |-> db]
        ELSE [kind |-> "Ok", db |-> db,
              report |-> FunctionReport(func.name, selector(func), signature(func),
                                        r.result.gas_used, r.result.status, None)]

\* evm.rs call: transact (no commit) with nonce 1; db is the ledger the
\* caller holds afterwards.
call(db, addr, func, calldata, outcome) ==
    LET tx == TxEnv(caller, GAS_LIMIT, [create |-> FALSE, to |-> addr], calldata, 1)
        r == transact(db, tx, outcome)
    IN  IF r.kind = "Err" THEN [kind |-> "Err", db |-> db]
        ELSE [kind |-> "Ok", db |-> db,
              report |-> FunctionReport(func.name, selector(func), signature(func),
                                        r.result.gas_used, r.result.status, None)]

(***************************************************************************)
(* JsonAbi.functions is a BTreeMap<String, Vec<Function>>: values() walks  *)
(* the names in ascending byte order, each name's overloads in the order   *)
(* they were declared.                                                     *)
(***************************************************************************)
Alphabet ==
    <<"a", "b", "c", "d", "e", "f", "g", "h", "i", "j", "k", "l", "m",
      "n", "o", "p", "q", "r", "s", "t", "u", "v", "w", "x", "y", "z">>

CharRank(c) == CHOOSE i \in 1..Len(Alphabet) : Alphabet[i] = c

RECURSIVE StrLess(_, _)
StrLess(s, t) ==
    IF t = <<>> THEN FALSE
    ELSE IF s = <<>> THEN TRUE
    ELSE IF s[1] # t[1] THEN CharRank(s[1]) < CharRank(t[1])
    ELSE StrLess(Tail(s), Tail(t))

SelectByName(items, n) == SelectSeq(items, LAMBDA f : f.name = n)

RECURSIVE values_from(_, _)
values_from(items, names) ==
    IF names = {} THEN <<>>
    ELSE LET least == CHOOSE n \in names : \A m \in names \ {n} : StrLess(n, m)
         IN  SelectByName(items, least) \o values_from(items, names \ {least})

\* The functions in the order the interface description lists them.
function_values_declared(abi) == abi.items

\* The functions in the order of the two nested loops of execute_contract.
function_values(abi) ==
    values_from(abi.items, {abi.items[i].name : i \in 1..Len(abi.items)})

(***************************************************************************)
(* Inputs: the functions and contracts the compiler hands over.            *)
(***************************************************************************)
MaxFuncs == 2
MaxContracts == 2

F_a == Function(<<"a">>, <<>>)
F_a_uint == Function(<<"a">>, <<Param(S_uint256, <<>>)>>)
F_b == Function(<<"b">>, <<>>)
F_b_void == Function(<<"b">>, <<Param(S_void, <<>>)>>)

\* c(address, tuple[]) whose second component does not normalize.
F_c_mixed ==
    Function(<<"c">>,
             <<Param(S_address, <<>>),
               Param(S_tuple_dyn, <<Param(S_uint256, <<>>), Param(S_void, <<>>)>>)>>)

FuncPool == {F_a, F_a_uint, F_b, F_b_void, F_c_mixed}

ConstructorPool ==
    {NoConstructor, Constructor(<<Param(S_uint256, <<>>)>>),
     Constructor(<<Param(S_void, <<>>)>>)}

Distinct(seq) == \A i, j \in 1..Len(seq) : i # j => seq[i] # seq[j]

Bytecode == <<96, 128, 96, 64>>

\* Functions of two names, one of them with an overload that cannot be
\* encoded; and two overloads of one name that both can.
NamedPool == {F_a, F_b, F_b_void}
OverloadPool == {F_a, F_a_uint}

DeclaredLists(pool) == {fs \in SeqsUpTo(pool, MaxFuncs) : Distinct(fs)}

\* One contract: any constructor with at most one function, or no
\* constructor with up to MaxFuncs functions declared in any order.
ContractPool ==
    {CompiledContract(<<"k">>, ctor, items, Bytecode) :
        ctor \in ConstructorPool, items \in SeqsUpTo(FuncPool, 1)}
      \cup {CompiledContract(<<"k">>, NoConstructor, items, Bytecode) :
                items \in DeclaredLists(NamedPool) \cup DeclaredLists(OverloadPool)}

\* Contracts of one function each, for runs over several contracts.
ListPool ==
    {CompiledContract(<<"p">>, NoConstructor, <<F_a>>, Bytecode),
     CompiledContract(<<"v">>, Constructor(<<Param(S_void, <<>>)>>), <<F_a>>, Bytecode)}

(***************************************************************************)
(* State.                                                                  *)
(***************************************************************************)
VARIABLES
    synTy,        \* the canonical type handed to strategy_value
    synStrategy,  \* the strategy handed to strategy_value
    synValue,     \* the value tree it returned
    synPc,        \* "ready" before the call, "done" after, "off" otherwise
    normParam,    \* the parameter descriptor handed to param_to_dyn_sol_type
    normRet,      \* what it returned
    normPc,       \* "ready", then "done" or "aborted"; "off" otherwise
    contracts,    \* main: the compiled contracts
    reports,      \* main: Vec<ContractReport>
    warnings,     \* what has been written to stderr
    pc,           \* where the run is
    ci,           \* main: number of contracts taken from the list
    dsi,          \* deploy_best: index of the strategy to try next
    last_err,     \* deploy_best: Option of the last error
    deploy_log,   \* the deployment attempts made for the current contract
    deploy_ret,   \* what deploy_best returned
    db,           \* execute_contract: the ledger
    addr,         \* execute_contract: the deployed address
    baseline,     \* the ledger as deploy_best handed it over
    fi,           \* execute_contract: index of the function in hand
    fn_reports,   \* execute_contract: Vec<FunctionReport>
    si,           \* try_function: index of the strategy to try next
    best,         \* try_function: Option<(FunctionReport, rank)>
    trials,       \* the strategies tried for the function in hand
    tf_ret,       \* what try_function returned
    exec_ret      \* what execute_contract returned

synVars == <<synTy, synStrategy, synValue, synPc>>
normVars == <<normParam, normRet, normPc>>
mainVars == <<contracts, reports, warnings, ci>>
deployVars == <<dsi, last_err, deploy_log, deploy_ret>>
execVars == <<db, addr, baseline, fi, fn_reports, exec_ret>>
tryVars == <<si, best, trials, tf_ret>>
vars == <<synVars, normVars, mainVars, deployVars, execVars, tryVars, pc>>

NoValue == [k |-> "None"]
NoDb == [absent |-> TRUE]
NoRet == [kind |-> "None"]

RunIdle ==
    /\ reports = <<>> /\ warnings = <<>> /\ ci = 0
    /\ dsi = 1 /\ last_err = None /\ deploy_log = <<>> /\ deploy_ret = NoRet
    /\ db = NoDb /\ addr = None /\ baseline = NoDb /\ fi = 1 /\ fn_reports = <<>>
    /\ exec_ret = NoRet
    /\ si = 1 /\ best = None /\ trials = <<>> /\ tf_ret = NoRet

SynthIdle ==
    /\ synTy = TBool /\ synStrategy = "SmartDefaults" /\ synValue = NoValue
    /\ synPc = "off"

NormIdle ==
    /\ normParam = Param(S_bool, <<>>) /\ normRet = NoRet /\ normPc = "off"

\* One contract of any shape.
Init ==
    /\ contracts \in {<<c>> : c \in ContractPool}
    /\ pc = "main_loop"
    /\ RunIdle /\ SynthIdle /\ NormIdle

\* Any list of up to MaxContracts small contracts.
InitMain ==
    /\ contracts \in SeqsUpTo(ListPool, MaxContracts)
    /\ pc = "main_loop"
    /\ RunIdle /\ SynthIdle /\ NormIdle

(***************************************************************************)
(* The synthesizer as a one-step machine over every (type, strategy).      *)
(***************************************************************************)
InitSynth ==
    /\ synTy \in CanonicalTypes
    /\ synStrategy \in CallStrategy
    /\ synValue = NoValue
    /\ synPc = "ready"
    /\ contracts = <<>> /\ pc = "off" /\ RunIdle /\ NormIdle

Synthesize ==
    /\ synPc = "ready"
    /\ synValue' = strategy_value(synTy, synStrategy, caller)
    /\ synPc' = "done"
    /\ UNCHANGED <<synTy, synStrategy, normVars, mainVars, deployVars, execVars, tryVars, pc>>

NextSynth == Synthesize

SpecSynth == InitSynth /\ [][NextSynth]_vars

(***************************************************************************)
(* Type normalisation as a one-step machine over parameter descriptors     *)
(* whose tag begins with "tuple[".                                         *)
(***************************************************************************)
\* What follows "tuple[" in the tag: closed brackets with and without a
\* length, a sign, a letter, a second dimension; and brackets left open.
BracketTails ==
    {<<"]">>, <<"0", "]">>, <<"2", "]">>, <<"1", "2", "]">>, <<"+", "1", "]">>,
     <<"-", "1", "]">>, <<"x", "]">>, <<"]", "[", "]">>, <<"2", "]", "[", "]">>,
     <<>>, <<"2">>, <<"1", "2">>}

NormComponents ==
    {Param(S_bool, <<>>), Param(S_address, <<>>), Param(S_void, <<>>),
     Param(S_tuple, <<Param(S_uint256, <<>>)>>),
     Param(S_tuple_dyn, <<Param(S_address, <<>>)>>)}

NormPool ==
    {Param(S_tuple_open \o tail, comps) :
        tail \in BracketTails, comps \in SeqsUpTo(NormComponents, MaxTupleLen)}

InitNorm ==
    /\ normParam \in NormPool
    /\ normRet = NoRet
    /\ normPc = "ready"
    /\ contracts = <<>> /\ pc = "off" /\ RunIdle /\ SynthIdle

\* param_to_dyn_sol_type(&param): a result comes back, or the slice panics
\* and the process is gone.
Normalize ==
    /\ normPc = "ready"
    /\ normRet' = param_to_dyn_sol_type(normParam)
    /\ normPc' = IF normRet'.kind = "Panic" THEN "aborted" ELSE "done"
    /\ UNCHANGED <<normParam, synVars, mainVars, deployVars, execVars, tryVars, pc>>

NextNorm == Normalize

SpecNorm == InitNorm /\ [][NextNorm]_vars

(***************************************************************************)
(* main.rs main: the loop over the contracts.                              *)
(***************************************************************************)
contract == contracts[ci]

\* for contract in &contracts { match evm::execute_contract(contract) ..:
\* execute_contract begins with deploy_best.
MainLoop ==
    /\ pc = "main_loop" /\ ci < Len(contracts)
    /\ ci' = ci + 1
    /\ dsi' = 1 /\ last_err' = None /\ deploy_log' = <<>> /\ deploy_ret' = NoRet
    /\ pc' = "deploy_best"
    /\ UNCHANGED <<synVars, normVars, contracts, reports, warnings, execVars, tryVars>>

\* evm::execute_contract(contract)? in place of the match: an error ends the run.
MainCollectOrFail ==
    /\ pc = "exec_returned"
    /\ IF exec_ret.kind = "Ok"
       THEN /\ reports' = Append(reports, ContractReport(contract.name, exec_ret.reports))
            /\ pc' = "main_loop"
       ELSE /\ UNCHANGED reports
            /\ pc' = "done"
    /\ exec_ret' = NoRet /\ deploy_ret' = NoRet
    /\ db' = NoDb /\ addr' = None /\ baseline' = NoDb /\ fn_reports' = <<>> /\ fi' = 1
    /\ UNCHANGED <<synVars, normVars, contracts, warnings, ci, dsi, last_err, deploy_log, tryVars>>

\* functions = match .. { Ok(funcs) => funcs, Err(e) => { eprintln!; Vec::new() } };
\* reports.push(ContractReport { .. })
MainCollect ==
    /\ pc = "exec_returned"
    /\ IF exec_ret.kind = "Ok"
       THEN /\ reports' = Append(reports, ContractReport(contract.name, exec_ret.reports))
            /\ UNCHANGED warnings
       ELSE /\ reports' = Append(reports, ContractReport(contract.name, <<>>))
            /\ warnings' = Append(warnings, [contract |-> contract.name, err |-> exec_ret.err])
    /\ exec_ret' = NoRet /\ deploy_ret' = NoRet
    /\ db' = NoDb /\ addr' = None /\ baseline' = NoDb /\ fn_reports' = <<>> /\ fi' = 1
    /\ pc' = "main_loop"
    /\ UNCHANGED <<synVars, normVars, contracts, ci, dsi, last_err, deploy_log, tryVars>>

\* println!("{json}") after the loop (or "[]" when there is no contract).
MainOutput ==
    /\ pc = "main_loop" /\ ci = Len(contracts)
    /\ pc' = "done"
    /\ UNCHANGED <<synVars, normVars, mainVars, deployVars, execVars, tryVars>>

(***************************************************************************)
(* evm.rs deploy_best                                                      *)
(***************************************************************************)
\* One turn of the loop over the deployment strategies.
DeployStrategy ==
    /\ pc = "deploy_best" /\ dsi <= Len(deploy_strategies)
    /\ \E outcome \in CreateOutcomes :
         LET strategy == deploy_strategies[dsi]
             ctor_args == encode_constructor_args_with_strategy(contract.abi, strategy, caller)
             data == [code |-> contract.bytecode, args |-> ctor_args.data]
             start == setup_db
             r == deploy(start, data, outcome)
         IN  /\ ctor_args.kind # "Panic"
             /\ IF ctor_args.kind = "Err"
                THEN /\ last_err' = Some("type parse error")
                     /\ deploy_log' = Append(deploy_log,
                            [strategy |-> strategy, encoded |-> FALSE, start |-> NoDb,
                             deployed |-> FALSE])
                     /\ dsi' = dsi + 1
                     /\ UNCHANGED <<deploy_ret, pc>>
                ELSE /\ deploy_log' = Append(deploy_log,
                            [strategy |-> strategy, encoded |-> TRUE, start |-> start,
                             deployed |-> r.kind = "Ok"])
                     /\ IF r.kind = "Ok"
                        THEN /\ deploy_ret' = r
                             /\ pc' = "deploy_returned"
                             /\ UNCHANGED <<last_err, dsi>>
                        ELSE /\ last_err' = Some(r.msg)
                             /\ dsi' = dsi + 1
                             /\ UNCHANGED <<deploy_ret, pc>>
    /\ UNCHANGED <<synVars, normVars, mainVars, execVars, tryVars>>

\* Err(last_err.unwrap_or_else(|| eyre!("deployment failed")))
DeployExhausted ==
    /\ pc = "deploy_best" /\ dsi > Len(deploy_strategies)
    /\ deploy_ret' = [kind |-> "Err",
                      msg |-> IF last_err = None THEN "deployment failed" ELSE last_err[1]]
    /\ pc' = "deploy_returned"
    /\ UNCHANGED <<synVars, normVars, mainVars, dsi, last_err, deploy_log, execVars, tryVars>>

(***************************************************************************)
(* evm.rs execute_contract                                                 *)
(***************************************************************************)
\* let (mut db, addr) = deploy_best(..)?; let mut reports = Vec::new();
ExecuteContractDeployed ==
    /\ pc = "deploy_returned" /\ deploy_ret.kind = "Ok"
    /\ db' = deploy_ret.db /\ addr' = Some(deploy_ret.addr)
    /\ baseline' = deploy_ret.db
    /\ fn_reports' = <<>> /\ fi' = 1
    /\ dsi' = 1 /\ last_err' = None /\ deploy_log' = <<>>
    /\ pc' = "functions"
    /\ UNCHANGED <<synVars, normVars, mainVars, deploy_ret, exec_ret, tryVars>>

\* deploy_best(..)? with an error: execute_contract returns it.
ExecuteContractAbandoned ==
    /\ pc = "deploy_returned" /\ deploy_ret.kind = "Err"
    /\ exec_ret' = [kind |-> "Err", err |-> deploy_ret.msg]
    /\ dsi' = 1 /\ last_err' = None /\ deploy_log' = <<>>
    /\ pc' = "exec_returned"
    /\ UNCHANGED <<synVars, normVars, mainVars, deploy_ret, db, addr, baseline, fi, fn_reports, tryVars>>

func == function_values(contract.abi)[fi]

\* for func in ..: try_function(&mut db, addr, func, caller_addr) is entered.
FunctionLoop ==
    /\ pc = "functions" /\ fi <= Len(function_values(contract.abi))
    /\ si' = 1 /\ best' = None /\ trials' = <<>> /\ tf_ret' = NoRet
    /\ pc' = "try_function"
    /\ UNCHANGED <<synVars, normVars, mainVars, deployVars, execVars>>

\* match try_function(..) { Ok(r) => reports.push(r), Err(e) => eprintln!(..) }
CollectReport ==
    /\ pc = "try_returned"
    /\ IF tf_ret.kind = "Ok"
       THEN /\ fn_reports' = Append(fn_reports, tf_ret.report)
            /\ UNCHANGED warnings
       ELSE /\ warnings' = Append(warnings,
                  [contract |-> contract.name, skipped |-> signature(func)])
            /\ UNCHANGED fn_reports
    /\ fi' = fi + 1
    /\ si' = 1 /\ best' = None /\ trials' = <<>> /\ tf_ret' = NoRet
    /\ pc' = "functions"
    /\ UNCHANGED <<synVars, normVars, contracts, reports, ci, deployVars, db, addr, baseline, exec_ret>>

\* Ok(reports)
ExecuteContractReturn ==
    /\ pc = "functions" /\ fi > Len(function_values(contract.abi))
    /\ exec_ret' = [kind |-> "Ok", reports |-> fn_reports]
    /\ pc' = "exec_returned"
    /\ UNCHANGED <<synVars, normVars, mainVars, deployVars, db, addr, baseline, fi, fn_reports, tryVars>>

(***************************************************************************)
(* evm.rs try_function                                                     *)
(***************************************************************************)
\* `continue`: the loop turns to the strategy after the one skipped.
\* skip_rest is `break` in its place.
skip_rest(i) == Len(STRATEGIES) + 1

skip_strategy(i) == i + 1

\* No early return.
never_best_possible(rank) == FALSE

\* if rank == 2 { return Ok(report); }
is_best_possible(rank) == rank = 2

\* rank >= *r: a tie replaces the report kept so far.
improves_or_ties(b, rank) == b = None \/ rank >= b[1].rank

\* best.as_ref().map_or(true, |(_, r)| rank > *r)
improves(b, rank) == b = None \/ rank > b[1].rank

\* A Halt kept as best counted as a failure of the function.
best_unless_halt(b) ==
    IF b = None \/ b[1].rank = 0 THEN [kind |-> "Err", err |-> "all strategies failed"]
    ELSE [kind |-> "Ok", report |-> b[1].report]

\* best.map(|(r, _)| r).ok_or_else(|| eyre!("all strategies failed for ..."))
best_or_error(b) ==
    IF b = None THEN [kind |-> "Err", err |-> "all strategies failed"]
    ELSE [kind |-> "Ok", report |-> b[1].report]

Trial(strategy, encoded, submitted, status, gas) ==
    [strategy |-> strategy, encoded |-> encoded, submitted |-> submitted,
     status |-> status, gas |-> gas]

\* One turn of the loop over STRATEGIES.
TryStrategy ==
    /\ pc = "try_function" /\ si <= Len(STRATEGIES)
    /\ LET strategy == STRATEGIES[si]
           f == func
           cd == encode_calldata_with_strategy(f, strategy, caller)
       IN  \E outcome \in CallOutcomes :
         LET r == call(db, addr[1], f, cd.data, outcome)
             report == [r.report EXCEPT !.strategy = Some(strategy_label(strategy))]
             rank == status_rank(report.status)
         IN  /\ cd.kind # "Panic"
             /\ IF cd.kind = "Err"
                THEN /\ trials' = Append(trials, Trial(strategy, FALSE, FALSE, "-", 0))
                     /\ si' = skip_strategy(si)
                     /\ UNCHANGED <<db, best, tf_ret, pc>>
                ELSE /\ db' = r.db
                     /\ IF r.kind = "Err"
                        THEN /\ trials' = Append(trials, Trial(strategy, TRUE, FALSE, "-", 0))
                             /\ si' = skip_strategy(si)
                             /\ UNCHANGED <<best, tf_ret, pc>>
                        ELSE /\ trials' = Append(trials,
                                    Trial(strategy, TRUE, TRUE, report.status, report.gas))
                             /\ IF is_best_possible(rank)
                                THEN /\ tf_ret' = [kind |-> "Ok", report |-> report]
                                     /\ pc' = "try_returned"
                                     /\ UNCHANGED <<best, si>>
                                ELSE /\ best' = IF improves(best, rank)
                                                THEN Some([report |-> report, rank |-> rank])
                                                ELSE best
                                     /\ si' = si + 1
                                     /\ UNCHANGED <<tf_ret, pc>>
    /\ UNCHANGED <<synVars, normVars, mainVars, deployVars, addr, baseline, fi, fn_reports, exec_ret>>

\* The loop is over: the best report, or the error.
TryExhausted ==
    /\ pc = "try_function" /\ si > Len(STRATEGIES)
    /\ tf_ret' = best_or_error(best)
    /\ pc' = "try_returned"
    /\ UNCHANGED <<synVars, normVars, mainVars, deployVars, execVars, si, best, trials>>

Next ==
    \/ MainLoop
    \/ DeployStrategy
    \/ DeployExhausted
    \/ ExecuteContractDeployed
    \/ ExecuteContractAbandoned
    \/ FunctionLoop
    \/ TryStrategy
    \/ TryExhausted
    \/ CollectReport
    \/ ExecuteContractReturn
    \/ MainCollect
    \/ MainOutput

Spec == Init /\ [][Next]_vars

SpecMain == InitMain /\ [][Next]_vars

(***************************************************************************)
(* Properties of try_function.                                             *)
(***************************************************************************)
InTry == pc \in {"try_function", "try_returned"}

\* The trials for which call() was invoked, in order.
EngineCalls == SelectSeq(trials, LAMBDA t : t.encoded)

\* The trials the engine classified, in order.
Classified == SelectSeq(trials, LAMBDA t : t.submitted)

TrialOrder == <<"SmartDefaults", "CallerAddress", "ZeroDefaults">>

\* C1: once a strategy is classified Success nothing is encoded or submitted
\* after it, so the engine calls made for a function number the position of
\* the first Success, exactly 1 when SmartDefaults succeeds, and never more
\* than 3.
C1_EarlyExitOnSuccess ==
    InTry =>
        /\ Len(EngineCalls) <= 3
        /\ \A i \in 1..Len(trials) :
              trials[i].status = "Success" => (i = Len(trials) /\ pc = "try_returned")
        /\ \A i \in 1..Len(EngineCalls) :
              EngineCalls[i].status = "Success" => Len(EngineCalls) = i
        /\ (trials # <<>> /\ trials[1].strategy = "SmartDefaults"
              /\ trials[1].status = "Success") => Len(EngineCalls) = 1

\* try_function has returned after a Revert under SmartDefaults and a Success
\* under CallerAddress: two engine calls.
C1_Witness ==
    /\ pc = "try_returned"
    /\ Len(trials) = 2 /\ Len(EngineCalls) = 2
    /\ trials[1].status = "Revert" /\ trials[2].status = "Success"
    /\ trials[2].strategy = "CallerAddress"
    /\ tf_ret.kind = "Ok"

RankOf(st) == CASE st = "Success" -> 2 [] st = "Revert" -> 1 [] st = "Halt" -> 0

LabelOf(st) ==
    CASE st = "SmartDefaults" -> "smart_defaults"
      [] st = "CallerAddress" -> "caller_address"
      [] st = "ZeroDefaults" -> "zero_defaults"

\* The earliest classified trial among those of the highest rank.
Winner ==
    CHOOSE i \in 1..Len(Classified) :
        /\ \A j \in 1..Len(Classified) :
              RankOf(Classified[j].status) <= RankOf(Classified[i].status)
        /\ \A j \in 1..(i - 1) :
              RankOf(Classified[j].status) < RankOf(Classified[i].status)

\* C2: the report returned carries the outcome, gas and label of the
\* earliest-tried strategy among those classified highest in
\* Success > Revert > Halt; for Halt, Revert, Halt it is the Revert one,
\* labelled caller_address, after exactly three engine calls.
C2_ReportIsEarliestBest ==
    (pc = "try_returned" /\ Classified # <<>>) =>
        /\ tf_ret.kind = "Ok"
        /\ tf_ret.report.status = Classified[Winner].status
        /\ tf_ret.report.gas = Classified[Winner].gas
        /\ tf_ret.report.strategy = Some(LabelOf(Classified[Winner].strategy))
        /\ tf_ret.report.name = func.name
        /\ ([i \in 1..Len(trials) |-> trials[i].status] = <<"Halt", "Revert", "Halt">>
              => /\ tf_ret.report.status = "Revert"
                 /\ tf_ret.report.strategy = Some("caller_address")
                 /\ tf_ret.report.gas = trials[2].gas
                 /\ Len(EngineCalls) = 3)

\* Halt, Revert, Halt with different gas: the Revert of CallerAddress is
\* reported.
C2_Witness ==
    /\ pc = "try_returned"
    /\ [i \in 1..Len(trials) |-> trials[i].status] = <<"Halt", "Revert", "Halt">>
    /\ trials[1].gas # trials[2].gas
    /\ tf_ret.kind = "Ok"
    /\ tf_ret.report.strategy = Some("caller_address")
    /\ tf_ret.report.gas = trials[2].gas

(***************************************************************************)
(* Properties of the ledger.                                               *)
(***************************************************************************)
InFunctions == pc \in {"functions", "try_function", "try_returned"}

\* C3: once deployment has handed over the baseline, no call of any outcome
\* changes the ledger: it equals the post-deployment state throughout.
C3_CallsLeaveBaseline ==
    (InFunctions \/ (pc = "exec_returned" /\ exec_ret.kind = "Ok")) =>
        /\ baseline = deploy_ret.db
        /\ db = baseline

\* The second function has been called with Success after the first one was
\* reported with Success; a submission error came in between.
C3_Witness ==
    /\ pc = "try_returned" /\ fi = 2
    /\ fn_reports # <<>> /\ fn_reports[1].status = "Success"
    /\ Len(trials) = 2 /\ ~trials[1].submitted /\ trials[1].encoded
    /\ trials[2].status = "Success"
    /\ db = baseline /\ db.caller_nonce = 1 /\ db.storage = 0

\* The ledger a creation with the constructor arguments of `strategy` leaves
\* when it starts from setup_db.
DeployedFromFresh(c, strategy) ==
    [caller_nonce |-> 1, caller_balance |-> 10000, storage |-> 0,
     code |-> [deployed |-> TRUE,
               init |-> [code |-> c.bytecode,
                         args |-> encode_constructor_args_with_strategy(
                                     c.abi, strategy, caller).data]]]

FreshLedger ==
    [caller_nonce |-> 0, caller_balance |-> 10000, code |-> [deployed |-> FALSE],
     storage |-> 0]

\* C4: deployment tries SmartDefaults, then ZeroDefaults, never
\* CallerAddress; ZeroDefaults exactly when SmartDefaults did not encode or
\* did not deploy; every attempt starts from a fresh ledger; the baseline is
\* the state the winning attempt committed, and nothing else.
C4_DeploymentOrderAndBaseline ==
    /\ Len(deploy_log) <= 2
    /\ \A i \in 1..Len(deploy_log) :
          /\ deploy_log[i].strategy = <<"SmartDefaults", "ZeroDefaults">>[i]
          /\ deploy_log[i].encoded => deploy_log[i].start = FreshLedger
          /\ deploy_log[i].deployed => i = Len(deploy_log)
    /\ pc = "deploy_returned" =>
          /\ deploy_log # <<>>
          /\ (Len(deploy_log) = 2) <=> ~deploy_log[1].deployed
          /\ (deploy_ret.kind = "Ok") <=> deploy_log[Len(deploy_log)].deployed
          /\ deploy_ret.kind = "Ok" =>
                deploy_ret.db =
                    DeployedFromFresh(contract, deploy_log[Len(deploy_log)].strategy)
    /\ InFunctions =>
          /\ baseline = deploy_ret.db
          /\ \E st \in {"SmartDefaults", "ZeroDefaults"} :
                baseline = DeployedFromFresh(contract, st)

\* A function has been called on a baseline deployed with the ZeroDefaults
\* constructor argument, which SmartDefaults would have encoded as 1.
C4_Witness ==
    /\ pc = "try_returned" /\ tf_ret.kind = "Ok"
    /\ contract.abi.constructor = Constructor(<<Param(S_uint256, <<>>)>>)
    /\ baseline.code.deployed
    /\ baseline.code.init.args = <<VUint(0, 256)>>
    /\ baseline.caller_nonce = 1

(***************************************************************************)
(* Properties of the loops over contracts and functions.                   *)
(***************************************************************************)
ContractErrors == SelectSeq(warnings, LAMBDA w : "err" \in DOMAIN w)

SkipWarnings == SelectSeq(warnings, LAMBDA w : "skipped" \in DOMAIN w)

\* C5: a contract none of whose deployment attempts yields an address is
\* abandoned: its functions are never entered, it gets no function report,
\* the failure comes back as the contract's error, and the contracts after
\* it are processed all the same.
C5_FailedDeploymentAbandonsContractOnly ==
    /\ InFunctions => deploy_ret.kind = "Ok"
    /\ (pc = "deploy_returned" /\ \A i \in 1..Len(deploy_log) : ~deploy_log[i].deployed)
          => deploy_ret.kind = "Err"
    /\ (pc = "exec_returned" /\ deploy_ret.kind = "Err")
          => /\ exec_ret.kind = "Err"
             /\ fn_reports = <<>> /\ trials = <<>> /\ db = NoDb
    /\ Len(reports) = (IF pc \in {"main_loop", "done", "off"} THEN ci ELSE ci - 1)
    /\ \A i \in 1..Len(reports) : reports[i].contract = contracts[i].name
    /\ \A i \in 1..Len(ContractErrors) :
          \E j \in 1..Len(reports) :
              /\ reports[j].contract = ContractErrors[i].contract
              /\ reports[j].functions = <<>>
    /\ pc = "done" => Len(reports) = Len(contracts)

\* The first contract could not be deployed and the second one, after it,
\* has a function report.
C5_Witness ==
    /\ pc = "done" /\ Len(contracts) = 2
    /\ Len(ContractErrors) = 1 /\ ContractErrors[1].contract = contracts[1].name
    /\ reports[1].functions = <<>>
    /\ reports[2].functions # <<>>

Reported(g) == \E i \in 1..Len(fn_reports) : fn_reports[i].signature = signature(g)

Skipped(g) == \E i \in 1..Len(SkipWarnings) : SkipWarnings[i].skipped = signature(g)

\* C6: try_function returns no report exactly when all three strategies
\* were tried and each failed to encode or to submit; the function is then
\* skipped with a warning and every other function is still attempted, each
\* ending reported or skipped.
C6_SkipOnlyWhenAllFail ==
    /\ pc = "try_returned" =>
          ((tf_ret.kind = "Err")
              <=> (Len(trials) = 3 /\ \A i \in 1..3 : ~trials[i].encoded \/ ~trials[i].submitted))
    /\ pc = "try_returned" => (tf_ret.kind = "Err" <=> Classified = <<>>)
    /\ (pc = "exec_returned" /\ deploy_ret.kind = "Ok") =>
          /\ exec_ret.kind = "Ok"
          /\ Len(fn_reports) + Len(SkipWarnings) = Len(contract.abi.items)
          /\ \A i \in 1..Len(contract.abi.items) :
                Reported(contract.abi.items[i]) # Skipped(contract.abi.items[i])

\* a() was skipped after three submission errors and b(), after it, was
\* reported.
C6_Witness ==
    /\ pc = "exec_returned" /\ exec_ret.kind = "Ok"
    /\ Len(SkipWarnings) = 1 /\ SkipWarnings[1].skipped = signature(F_a)
    /\ Len(fn_reports) = 1 /\ fn_reports[1].signature = signature(F_b)

\* C7: an encoding failure skips the strategy, not the function: the
\* strategies are tried in their fixed order up to the last one unless one
\* succeeds, and any strategy that encodes and submits gives the function a
\* report.
C7_EncodingFailureSkipsStrategyOnly ==
    InTry =>
        /\ \A i \in 1..Len(trials) : trials[i].strategy = TrialOrder[i]
        /\ pc = "try_function" => Len(trials) = si - 1
        /\ pc = "try_returned" =>
              (Len(trials) = 3 \/ trials[Len(trials)].status = "Success")
        /\ (pc = "try_returned" /\ \E i \in 1..Len(trials) : trials[i].submitted)
              => tf_ret.kind = "Ok"

\* SmartDefaults failed to encode and CallerAddress and ZeroDefaults were
\* tried after it.
C7_Witness ==
    /\ pc = "try_returned"
    /\ Len(trials) = 3 /\ ~trials[1].encoded
    /\ trials[2].strategy = "CallerAddress" /\ trials[3].strategy = "ZeroDefaults"

\* The place of the reported function in the interface description.
DeclIndex(r) ==
    CHOOSE i \in 1..Len(contract.abi.items) : signature(contract.abi.items[i]) = r.signature

\* C10 (as stated): of two reported functions the one declared earlier comes
\* earlier in the list execute_contract returns.
C10_ReportsInDeclarationOrder ==
    (pc = "exec_returned" /\ exec_ret.kind = "Ok") =>
        \A i, j \in 1..Len(exec_ret.reports) :
            i < j => DeclIndex(exec_ret.reports[i]) < DeclIndex(exec_ret.reports[j])

\* C10 (amended): of two reported functions the one whose name is smaller in
\* byte order comes earlier; two overloads of one name come in declaration
\* order.
C10_ReportsInNameOrder ==
    (pc = "exec_returned" /\ exec_ret.kind = "Ok") =>
        \A i, j \in 1..Len(exec_ret.reports) :
            i < j =>
                \/ StrLess(exec_ret.reports[i].name, exec_ret.reports[j].name)
                \/ /\ exec_ret.reports[i].name = exec_ret.reports[j].name
                   /\ DeclIndex(exec_ret.reports[i]) < DeclIndex(exec_ret.reports[j])

\* b() was declared before a(); both are reported, a() first.
C10_Witness ==
    /\ pc = "exec_returned" /\ exec_ret.kind = "Ok"
    /\ contract.abi.items = <<F_b, F_a>>
    /\ Len(exec_ret.reports) = 2
    /\ exec_ret.reports[1].name = <<"a">> /\ exec_ret.reports[2].name = <<"b">>

(***************************************************************************)
(* Shape of a value tree against a canonical type.  arrLen gives the       *)
(* number of elements expected of a dynamic Array.                         *)
(***************************************************************************)
RECURSIVE HasShape(_, _, _)
HasShape(ty, v, arrLen) ==
    /\ v.k = ty.k
    /\ CASE ty.k = "Array" ->
               /\ Len(v.elems) = arrLen
               /\ \A i \in 1..Len(v.elems) : HasShape(ty.inner, v.elems[i], arrLen)
          [] ty.k = "FixedArray" ->
               /\ Len(v.elems) = ty.len
               /\ \A i \in 1..Len(v.elems) : HasShape(ty.inner, v.elems[i], arrLen)
          [] ty.k = "Tuple" ->
               /\ Len(v.fields) = Len(ty.types)
               /\ \A i \in 1..Len(v.fields) : HasShape(ty.types[i], v.fields[i], arrLen)
          [] ty.k \in {"Uint", "Int"} -> v.bits = ty.bits
          [] ty.k = "FixedBytes" -> v.size = ty.size
          [] OTHER -> TRUE

\* The number of elements strategy_value gives a dynamic Array.
ArrayLenUnder(strategy) == IF strategy = "ZeroDefaults" THEN 0 ELSE 1

\* C8 (as stated): under every strategy the value tree has the type's shape
\* with a single element for every Array.
C8_ShapeSingleElementEveryStrategy ==
    synPc = "done" => HasShape(synTy, synValue, 1)

\* C8 (amended): under every strategy the value tree has the type's variant,
\* n elements for FixedArray(_, n), the field count and order of a Tuple, and
\* for Array a single element under SmartDefaults and CallerAddress but no
\* element under ZeroDefaults.
C8_ShapeMatchesType ==
    synPc = "done" => HasShape(synTy, synValue, ArrayLenUnder(synStrategy))

\* A fixed array of dynamic arrays has been synthesized under ZeroDefaults.
C8_Witness ==
    /\ synPc = "done"
    /\ synStrategy = "ZeroDefaults"
    /\ synTy = TFixedArray(TArray(TAddress), 2)
    /\ synValue = VFixedArray(<<VArray(<<>>), VArray(<<>>)>>)

(***************************************************************************)
(* The SmartDefaults tree with every Address leaf replaced by who.         *)
(***************************************************************************)
RECURSIVE ReplaceAddress(_, _)
ReplaceAddress(v, who) ==
    CASE v.k = "Address" -> VAddress(who)
      [] v.k = "Array" ->
            VArray([i \in 1..Len(v.elems) |-> ReplaceAddress(v.elems[i], who)])
      [] v.k = "FixedArray" ->
            VFixedArray([i \in 1..Len(v.elems) |-> ReplaceAddress(v.elems[i], who)])
      [] v.k = "Tuple" ->
            VTuple([i \in 1..Len(v.fields) |-> ReplaceAddress(v.fields[i], who)])
      [] OTHER -> v

\* C9: under CallerAddress the tree is the SmartDefaults tree with every
\* Address leaf, at any depth, replaced by the caller identity and nothing
\* else changed.
C9_CallerIsSmartWithCallerAddresses ==
    (synPc = "done" /\ synStrategy = "CallerAddress")
        => synValue = ReplaceAddress(smart_value(synTy, caller), caller)

\* A tuple holding an address array and a uint has been synthesized under
\* CallerAddress: the nested address is the caller, the uint is 1.
C9_Witness ==
    /\ synPc = "done"
    /\ synStrategy = "CallerAddress"
    /\ synTy = TTuple(<<TArray(TAddress), TUint(256)>>)
    /\ synValue = VTuple(<<VArray(<<VAddress(caller)>>), VUint(1, 256)>>)
    /\ synValue # smart_value(synTy, caller)

(***************************************************************************)
(* Properties of type normalisation.                                       *)
(***************************************************************************)
ComponentsNormalize == collect_types(normParam.components, <<>>).kind = "Ok"

ComponentTuple == TTuple(collect_types(normParam.components, <<>>).types)

\* The tag is "tuple[" N "]" with N a parseable non-negative integer.
IsFixedTag(tag) ==
    /\ Len(tag) >= 8
    /\ tag[Len(tag)] = "]"
    /\ parse_usize(SubSeq(tag, 7, Len(tag) - 1)).kind = "Ok"

FixedTagLen(tag) == parse_usize(SubSeq(tag, 7, Len(tag) - 1)).n

\* C11: for a tag that begins with "tuple[" and whose components all
\* normalize, param_to_dyn_sol_type neither fails nor aborts: "tuple[]" gives
\* Array(Tuple), "tuple[N]" with a parseable N gives FixedArray(Tuple, N),
\* and every other bracket content, empty or unterminated included, gives
\* Array(Tuple).
C11_TupleBracketNeverFails ==
    (normPc \in {"done", "aborted"} /\ starts_with(normParam.ty, S_tuple_open)
        /\ ComponentsNormalize) =>
        /\ normPc = "done"
        /\ normRet.kind = "Ok"
        /\ normRet.ty =
              (IF normParam.ty = S_tuple_dyn THEN TArray(ComponentTuple)
               ELSE IF IsFixedTag(normParam.ty)
               THEN TFixedArray(ComponentTuple, FixedTagLen(normParam.ty))
               ELSE TArray(ComponentTuple))

(***************************************************************************)
(* Properties of encoding across the strategies.                           *)
(***************************************************************************)
\* Every parameter of the list normalizes.
Normalizes(params) ==
    \A i \in 1..Len(params) : param_to_dyn_sol_type(params[i]).kind = "Ok"

ConstructorNormalizes(abi) ==
    abi.constructor.present => Normalizes(abi.constructor.inputs)

\* C12: whether encoding fails does not depend on the strategy: the
\* strategies tried for a function all encode or all fail to, and they fail
\* exactly when some parameter does not normalize; such a function makes no
\* engine call and gets no report.  The same holds of the constructor over
\* the deployment strategies.
C12_EncodingFailureIsStrategyIndependent ==
    /\ InTry =>
          /\ \A i \in 1..Len(trials) : trials[i].encoded <=> Normalizes(func.inputs)
          /\ \A s \in CallStrategy :
                (encode_calldata_with_strategy(func, s, caller).kind = "Ok")
                    <=> Normalizes(func.inputs)
          /\ ~Normalizes(func.inputs) =>
                /\ EngineCalls = <<>>
                /\ pc = "try_returned" => (tf_ret.kind = "Err" /\ Len(trials) = 3)
    /\ InFunctions =>
          \A i \in 1..Len(contract.abi.items) :
              ~Normalizes(contract.abi.items[i].inputs)
                  => ~Reported(contract.abi.items[i])
    /\ pc \in {"deploy_best", "deploy_returned"} =>
          \A i \in 1..Len(deploy_log) :
              deploy_log[i].encoded <=> ConstructorNormalizes(contract.abi)

\* c(address, tuple[]) with a component that does not normalize has gone
\* through the three strategies: none encoded, no engine call, no report.
C12_Witness ==
    /\ pc = "try_returned"
    /\ func = F_c_mixed
    /\ Len(trials) = 3 /\ \A i \in 1..3 : ~trials[i].encoded
    /\ EngineCalls = <<>>
    /\ tf_ret.kind = "Err"
    /\ db = baseline

(***************************************************************************)
(* Properties of the caller's nonce.                                       *)
(***************************************************************************)
\* The outcomes in which the engine does not reject the transaction for a
\* reason of its own.
AcceptingOutcomes == {o \in CallOutcomes : o.status # "Err"}

\* C13: at every function call the caller's nonce in the ledger is 1, one
\* above the nonce of a fresh ledger, whatever the number of functions,
\* strategies and failed deployment attempts before it; so the transaction
\* call() builds is never rejected for its nonce.
C13_CallNonceMatchesBaseline ==
    InFunctions =>
        /\ baseline.caller_nonce = setup_db.caller_nonce + 1
        /\ db.caller_nonce = 1
        /\ (pc = "try_function" /\ si <= Len(STRATEGIES)) =>
              \A o \in AcceptingOutcomes :
                  call(db, addr[1], func, <<>>, o).kind = "Ok"

\* The contract was deployed by the second attempt, with the ZeroDefaults
\* constructor argument, and its function has been called three times: the
\* caller's nonce is still 1.
C13_Witness ==
    /\ pc = "try_returned"
    /\ contract.abi.constructor = Constructor(<<Param(S_uint256, <<>>)>>)
    /\ baseline.code.init.args = <<VUint(0, 256)>>
    /\ Len(trials) = 3 /\ \A i \in 1..3 : trials[i].submitted
    /\ db.caller_nonce = 1

=============================================================================
